---- MODULE Spec2Model ----
(***************************************************************************)
(* Model of scripts/radica-symbols/convert_to_fusioncad.py: the SVG to     *)
(* fusionCad symbol converter.                                             *)
(*                                                                         *)
(* Python strings are sequences of one-character strings, so that          *)
(* str.split, str.strip, str.rstrip, str.endswith, re.split, re.sub and    *)
(* float() are computed character by character.  Python floats are         *)
(* fixed-point integers counting 1/Den (Den = 200): every number the model *)
(* reads has at most two decimals, so that parsing, subtracting, scaling   *)
(* by an integer, halving once and "%.2f" are all exact.                   *)
(***************************************************************************)
EXTENDS Integers, Sequences, FiniteSets, TLC

VARIABLES
    pc,        \* position of main(): "start", "loop", "parse", "check", "export", "done"
    input,     \* args.input: "file", "dir", or "missing" (neither)
    dest,      \* where the batch goes: a "json" or "ts" --output file, or "stdout"
    files,     \* the *.svg files of args.input, in glob order
    idx,       \* index of the next file of convert_directory's loop
    symbols,   \* convert_directory's result list so far
    stdout,    \* what has been written to standard output, in order
    stderr,    \* what has been written to standard error, in order
    outFile,   \* what has been written to the --output file, in order
    exitCode,  \* the process's exit status, None while running
    call,      \* a direct call of one of the pure functions: its arguments
    ret        \* and its result

vars == <<pc, input, dest, files, idx, symbols, stdout, stderr, outFile, exitCode, call, ret>>

mainVars == <<pc, input, dest, files, idx, symbols, stdout, stderr, outFile, exitCode>>

(***************************************************************************)
(* Python values                                                           *)
(***************************************************************************)

\* Python's None; no character sequence equals it.
None == <<"None">>

\* One unit of the fixed-point representation is 1/Den.
Den == 2 * 100

Digits == <<"0", "1", "2", "3", "4", "5", "6", "7", "8", "9">>

IsDigit(c) == \E i \in 1..10 : Digits[i] = c

DigitVal(c) == (CHOOSE i \in 1..10 : Digits[i] = c) - 1

\* the characters str.isspace and the regex class \s accept
Whitespace == {" ", "\t", "\n", "\r"}

IsSpace(c) == c \in Whitespace

\* str.strip(): leading and trailing whitespace removed
RECURSIVE LStrip(_)
LStrip(s) == IF s # <<>> /\ IsSpace(Head(s)) THEN LStrip(Tail(s)) ELSE s

RECURSIVE RStripSpace(_)
RStripSpace(s) ==
    IF s # <<>> /\ IsSpace(s[Len(s)]) THEN RStripSpace(SubSeq(s, 1, Len(s) - 1)) ELSE s

Strip(s) == RStripSpace(LStrip(s))

\* str.rstrip(ch): every trailing ch removed
RECURSIVE RStrip(_, _)
RStrip(s, ch) ==
    IF s # <<>> /\ s[Len(s)] = ch THEN RStrip(SubSeq(s, 1, Len(s) - 1), ch) ELSE s

\* str.endswith(suffix)
EndsWith(s, suffix) ==
    /\ Len(s) >= Len(suffix)
    /\ SubSeq(s, Len(s) - Len(suffix) + 1, Len(s)) = suffix

\* sep.join(list)
RECURSIVE Join(_, _)
Join(list, sep) ==
    IF list = <<>> THEN <<>>
    ELSE IF Len(list) = 1 THEN list[1]
    ELSE list[1] \o sep \o Join(Tail(list), sep)

\* str.replace(old, new) with a two-character old and an empty new, as in
\* .replace("px", "")
RECURSIVE RemoveAll(_, _)
RemoveAll(s, old) ==
    IF Len(s) < Len(old) THEN s
    ELSE IF SubSeq(s, 1, Len(old)) = old THEN RemoveAll(SubSeq(s, Len(old) + 1, Len(s)), old)
    ELSE <<Head(s)>> \o RemoveAll(Tail(s), old)

\* The pieces of s between maximal runs of separator characters; a run at the
\* start or at the end leaves an empty piece there (re.split).
RECURSIVE SplitRuns(_, _, _, _)
SplitRuns(s, seps, cur, inSep) ==
    IF s = <<>> THEN <<cur>>
    ELSE IF Head(s) \in seps
         THEN IF inSep THEN SplitRuns(Tail(s), seps, cur, TRUE)
              ELSE <<cur>> \o SplitRuns(Tail(s), seps, <<>>, TRUE)
         ELSE SplitRuns(Tail(s), seps, Append(cur, Head(s)), FALSE)

\* re.split(r'[,\s]+', s)
ReSplit(s) == SplitRuns(s, Whitespace \cup {","}, <<>>, FALSE)

NonEmpty(p) == p # <<>>

\* str.split(): split on runs of whitespace, no empty pieces
SplitWs(s) == SelectSeq(SplitRuns(s, Whitespace, <<>>, FALSE), NonEmpty)

(***************************************************************************)
(* float(): an optional sign, digits, an optional point, digits; at least  *)
(* one digit.  The model's inputs hold no exponent, underscore, "inf" or   *)
(* "nan", and at most two decimals.  Anything else raises ValueError.      *)
(***************************************************************************)
RECURSIVE DigitsVal(_, _)
DigitsVal(s, acc) == IF s = <<>> THEN acc ELSE DigitsVal(Tail(s), 10 * acc + DigitVal(Head(s)))

AllDigits(s) == \A i \in 1..Len(s) : IsDigit(s[i])

\* the fraction digits, in units of 1/Den
FracVal(s) ==
    (IF Len(s) >= 1 THEN DigitVal(s[1]) * (Den \div 10) ELSE 0)
    + (IF Len(s) >= 2 THEN DigitVal(s[2]) * (Den \div 100) ELSE 0)

ValueError == [ok |-> FALSE, exc |-> "ValueError"]

Ok(v) == [ok |-> TRUE, val |-> v]

ParseFloat(tok) ==
    LET signed == tok # <<>> /\ Head(tok) \in {"-", "+"}
        body   == IF signed THEN Tail(tok) ELSE tok
        dots   == {i \in 1..Len(body) : body[i] = "."}
        ip     == IF dots = {} THEN body
                  ELSE SubSeq(body, 1, (CHOOSE i \in dots : TRUE) - 1)
        fp     == IF dots = {} THEN <<>>
                  ELSE SubSeq(body, (CHOOSE i \in dots : TRUE) + 1, Len(body))
        mag    == DigitsVal(ip, 0) * Den + FracVal(fp)
    IN  IF /\ Cardinality(dots) <= 1
           /\ AllDigits(ip) /\ AllDigits(fp)
           /\ Len(ip) + Len(fp) >= 1
        THEN Ok(IF signed /\ Head(tok) = "-" THEN 0 - mag ELSE mag)
        ELSE ValueError

\* the decimal digits of a natural number
RECURSIVE NatStr(_)
NatStr(n) == IF n < 10 THEN <<Digits[n + 1]>> ELSE NatStr(n \div 10) \o <<Digits[(n % 10) + 1]>>

\* f"{v:.2f}" for a value with at most two decimals
Format2f(v) ==
    LET a == IF v < 0 THEN 0 - v ELSE v
        h == a \div (Den \div 100)
    IN  (IF v < 0 THEN <<"-">> ELSE <<>>)
        \o NatStr(h \div 100) \o <<".">>
        \o <<Digits[((h % 100) \div 10) + 1], Digits[(h % 10) + 1]>>

\* float(s): surrounding whitespace is ignored
PyFloat(s) == ParseFloat(Strip(s))

\* a * b for fixed-point values; exact when b is a whole number
Mul(a, b) == (a * b) \div Den

(***************************************************************************)
(* xml.etree elements.  A document tree is the sequence of its elements in *)
(* document order (what Element.iter() yields from the root), each with    *)
(* its tag, its attributes and the index of its parent (0 for the root).   *)
(***************************************************************************)

\* Element.get(name, default)
Get(elem, name, default) ==
    IF name \in DOMAIN elem.attrs THEN elem.attrs[name] ELSE default

RECURSIVE IsAncestorOrSelf(_, _, _)
IsAncestorOrSelf(tree, a, i) ==
    IF i = a THEN TRUE
    ELSE IF i = 0 THEN FALSE
    ELSE IsAncestorOrSelf(tree, a, tree[i].parent)

\* the indices elem.iter() yields for the element at index i: itself and its
\* descendants, in document order
Iter(tree, i) ==
    SelectSeq([j \in 1..Len(tree) |-> j], LAMBDA j : IsAncestorOrSelf(tree, i, j))

(***************************************************************************)
(* parse_svg_viewbox                                                       *)
(***************************************************************************)
DefaultViewBox == <<"0", " ", "0", " ", "1", "0", "0", " ", "1", "0", "0">>

DefaultSize == <<"1", "0", "0">>

Px == <<"p", "x">>

parse_svg_viewbox(svg_root) ==
    LET viewbox == Get(svg_root, "viewBox", DefaultViewBox)
        parts   == SplitWs(viewbox)
        nums    == [i \in 1..Len(parts) |-> PyFloat(parts[i])]
        width   == PyFloat(RemoveAll(Get(svg_root, "width", DefaultSize), Px))
        height  == PyFloat(RemoveAll(Get(svg_root, "height", DefaultSize), Px))
    IN  IF Len(parts) = 4
        THEN IF \A i \in 1..4 : nums[i].ok
             THEN Ok(<<nums[1].val, nums[2].val, nums[3].val, nums[4].val>>)
             ELSE ValueError
        ELSE IF ~width.ok \/ ~height.ok THEN ValueError
        ELSE Ok(<<0, 0, width.val, height.val>>)

(***************************************************************************)
(* extract_svg_paths                                                       *)
(***************************************************************************)
TagSymbol == <<"s", "y", "m", "b", "o", "l">>

TagPath == <<"p", "a", "t", "h">>

\* mutant: the seen set is not consulted
RECURSIVE CollectPathsNoSeen(_, _, _)
CollectPathsNoSeen(tree, elems, acc) ==
    IF elems = <<>> THEN acc
    ELSE LET path == tree[Head(elems)]
             d    == Get(path, "d", None)
         IN  IF /\ EndsWith(path.tag, TagPath)
                /\ d # None /\ d # <<>>
             THEN CollectPathsNoSeen(tree, Tail(elems),
                               [acc EXCEPT !.paths = Append(@, d), !.seen = @ \cup {d}])
             ELSE CollectPathsNoSeen(tree, Tail(elems), acc)

\* the inner loops (lines 92-97 and 101-106): over elems, append each new,
\* non-empty d of an element whose tag ends with "path"
RECURSIVE CollectPaths(_, _, _)
CollectPaths(tree, elems, acc) ==
    IF elems = <<>> THEN acc
    ELSE LET path == tree[Head(elems)]
             d    == Get(path, "d", None)
         IN  IF /\ EndsWith(path.tag, TagPath)
                /\ d # None /\ d # <<>>
                /\ d \notin acc.seen
             THEN CollectPaths(tree, Tail(elems),
                               [acc EXCEPT !.paths = Append(@, d), !.seen = @ \cup {d}])
             ELSE CollectPaths(tree, Tail(elems), acc)

\* the outer loop (lines 89-97) over svg_root.iter()
RECURSIVE ScanSymbols(_, _, _)
ScanSymbols(tree, i, acc) ==
    IF i > Len(tree) THEN acc
    ELSE IF EndsWith(tree[i].tag, TagSymbol)
         THEN ScanSymbols(tree, i + 1,
                          CollectPaths(tree, Iter(tree, i), [acc EXCEPT !.has_symbol = TRUE]))
         ELSE ScanSymbols(tree, i + 1, acc)

extract_svg_paths(tree) ==
    LET a == ScanSymbols(tree, 1, [paths |-> <<>>, seen |-> {}, has_symbol |-> FALSE])
    IN  IF ~a.has_symbol THEN CollectPaths(tree, Iter(tree, 1), a).paths ELSE a.paths

(***************************************************************************)
(* normalize_svg_path                                                      *)
(***************************************************************************)
UpperCommands == {"M", "L", "H", "V", "C", "S", "Q", "T", "A", "Z"}

LowerCommands == {"m", "l", "h", "v", "c", "s", "q", "t", "a", "z"}

\* the character class [MmLlHhVvCcSsQqTtAaZz] of the pattern
CommandLetters == UpperCommands \cup LowerCommands

\* cmd.isupper() for a command letter
IsUpper(cmd) == cmd \in UpperCommands

Space == <<" ">>

\* f"...".rstrip('0').rstrip('.')
StripZeros(s) == RStrip(RStrip(s, "0"), ".")

\* mutant: a token that is no number is skipped instead of appended
RECURSIVE AdjustLoopDropBad(_, _, _, _, _, _, _)
AdjustLoopDropBad(parts, i, adjusted, cmd, min_x, min_y, scale) ==
    IF i > Len(parts) THEN adjusted
    ELSE LET fx == PyFloat(parts[i])
             x  == IF IsUpper(cmd) THEN Mul(fx.val - min_x, scale) ELSE fx.val
             fy == PyFloat(parts[i + 1])
             y  == IF IsUpper(cmd) THEN Mul(fy.val - min_y, scale) ELSE fy.val
             verbatim == AdjustLoopDropBad(parts, i + 1, adjusted,
                                           cmd, min_x, min_y, scale)
         IN  IF ~fx.ok THEN verbatim
             ELSE IF i + 1 <= Len(parts)
                  THEN IF ~fy.ok THEN verbatim
                       ELSE AdjustLoopDropBad(parts, i + 2,
                                Append(adjusted,
                                       StripZeros(Format2f(x) \o <<",">> \o Format2f(y))),
                                cmd, min_x, min_y, scale)
                  ELSE AdjustLoopDropBad(parts, i + 1,
                                  Append(adjusted, StripZeros(Format2f(x))),
                                  cmd, min_x, min_y, scale)

\* the while loop of adjust_coords (lines 138-156)
RECURSIVE AdjustLoop(_, _, _, _, _, _, _)
AdjustLoop(parts, i, adjusted, cmd, min_x, min_y, scale) ==
    IF i > Len(parts) THEN adjusted
    ELSE LET fx == PyFloat(parts[i])
             x  == IF IsUpper(cmd) THEN Mul(fx.val - min_x, scale) ELSE fx.val
             fy == PyFloat(parts[i + 1])
             y  == IF IsUpper(cmd) THEN Mul(fy.val - min_y, scale) ELSE fy.val
             verbatim == AdjustLoop(parts, i + 1, Append(adjusted, parts[i]),
                                    cmd, min_x, min_y, scale)
         IN  IF ~fx.ok THEN verbatim
             ELSE IF i + 1 <= Len(parts)
                  THEN IF ~fy.ok THEN verbatim
                       ELSE AdjustLoop(parts, i + 2,
                                Append(adjusted,
                                       StripZeros(Format2f(x) \o <<",">> \o Format2f(y))),
                                cmd, min_x, min_y, scale)
                  ELSE AdjustLoop(parts, i + 1,
                                  Append(adjusted, StripZeros(Format2f(x))),
                                  cmd, min_x, min_y, scale)

\* adjust_coords(match), with match.group(1) = cmd and match.group(2) = rest
adjust_coords(cmd, rest, min_x, min_y, scale) ==
    LET coords == Strip(rest)
    IN  IF coords = <<>> THEN <<cmd>>
        ELSE <<cmd>> \o Join(AdjustLoop(ReSplit(coords), 1, <<>>, cmd, min_x, min_y, scale),
                             Space)

\* the length of the longest prefix of s that holds no command letter:
\* what [^MmLlHhVvCcSsQqTtAaZz]* matches
RECURSIVE RunLen(_)
RunLen(s) == IF s = <<>> \/ Head(s) \in CommandLetters THEN 0 ELSE 1 + RunLen(Tail(s))

\* re.sub(pattern, adjust_coords, s): text before the first command letter is
\* kept; each command letter with the run after it is replaced
RECURSIVE ReSub(_, _, _, _)
ReSub(s, min_x, min_y, scale) ==
    IF s = <<>> THEN <<>>
    ELSE IF Head(s) \notin CommandLetters
         THEN <<Head(s)>> \o ReSub(Tail(s), min_x, min_y, scale)
         ELSE LET n == RunLen(Tail(s))
              IN  adjust_coords(Head(s), SubSeq(s, 2, n + 1), min_x, min_y, scale)
                  \o ReSub(SubSeq(s, n + 2, Len(s)), min_x, min_y, scale)

\* mutant: no fast path, every call re-tokenizes
normalize_svg_path_NoFastPath(paths, min_x, min_y, scale) ==
    IF paths = <<>> THEN <<>>
    ELSE ReSub(Join(paths, Space), min_x, min_y, scale)

normalize_svg_path(paths, min_x, min_y, scale) ==
    IF paths = <<>> THEN <<>>
    ELSE LET combined == Join(paths, Space)
         IN  IF min_x = 0 /\ min_y = 0 /\ scale = Den THEN combined
             ELSE ReSub(combined, min_x, min_y, scale)

(***************************************************************************)
(* infer_pins_from_svg                                                     *)
(***************************************************************************)
Pin(id, x, y, direction) == [id |-> id, x |-> x, y |-> y, direction |-> direction]

\* the float 1.5
OneAndHalf == (3 * Den) \div 2

\* mutant: the horizontal pins take their y from the width
infer_pins_from_svg_WidthForY(viewbox, paths) ==
    LET width  == viewbox[3]
        height == viewbox[4]
        topBottom == <<Pin("1", width \div 2, 0, "top"),
                       Pin("2", width \div 2, height, "bottom")>>
    IN  IF height > Mul(width, OneAndHalf) THEN topBottom
        ELSE IF width > Mul(height, OneAndHalf)
             THEN <<Pin("1", 0, width \div 2, "left"),
                    Pin("2", width, width \div 2, "right")>>
        ELSE topBottom

\* mutant: the horizontal test comes first
infer_pins_from_svg_HorizontalFirst(viewbox, paths) ==
    LET width  == viewbox[3]
        height == viewbox[4]
        topBottom == <<Pin("1", width \div 2, 0, "top"),
                       Pin("2", width \div 2, height, "bottom")>>
    IN  IF width > Mul(height, OneAndHalf)
        THEN <<Pin("1", 0, height \div 2, "left"),
               Pin("2", width, height \div 2, "right")>>
        ELSE topBottom

infer_pins_from_svg(viewbox, paths) ==
    LET width  == viewbox[3]
        height == viewbox[4]
        topBottom == <<Pin("1", width \div 2, 0, "top"),
                       Pin("2", width \div 2, height, "bottom")>>
    IN  IF height > Mul(width, OneAndHalf) THEN topBottom
        ELSE IF width > Mul(height, OneAndHalf)
             THEN <<Pin("1", 0, height \div 2, "left"),
                    Pin("2", width, height \div 2, "right")>>
        ELSE topBottom

(***************************************************************************)
(* parse_svg_file                                                          *)
(***************************************************************************)
Nothing == [some |-> FALSE]

Some(v) == [some |-> TRUE, val |-> v]

UpperLetters == <<"A", "B", "C", "D", "E", "F", "G", "H", "I", "J", "K", "L", "M",
                  "N", "O", "P", "Q", "R", "S", "T", "U", "V", "W", "X", "Y", "Z">>

LowerLetters == <<"a", "b", "c", "d", "e", "f", "g", "h", "i", "j", "k", "l", "m",
                  "n", "o", "p", "q", "r", "s", "t", "u", "v", "w", "x", "y", "z">>

\* str.lower()
Lower(s) ==
    [i \in 1..Len(s) |->
        IF \E k \in 1..26 : UpperLetters[k] = s[i]
        THEN LowerLetters[CHOOSE k \in 1..26 : UpperLetters[k] = s[i]]
        ELSE s[i]]

\* str.replace(old, new) for single characters
ReplaceChar(s, old, new) == [i \in 1..Len(s) |-> IF s[i] = old THEN new ELSE s[i]]

\* lines 236-237: the id made from the file's stem
SymbolId(stem) == Lower(ReplaceChar(stem, "_", "-"))

\* The SymbolDefinition of one file, or None with what was printed to stderr.
\* f.xml is what ET.parse does with the file: "ok", "malformed" (ParseError)
\* or "unreadable" (OSError).  name, tags, source and variants are left out.
parse_svg_file(f) ==
    IF f.xml = "malformed"
    THEN [symbol |-> Nothing, log |-> <<"XML Parse Error">>]
    ELSE IF f.xml = "unreadable"
    THEN [symbol |-> Nothing, log |-> <<"Error parsing">>]
    ELSE LET viewbox == parse_svg_viewbox(f.tree[1])
             paths   == extract_svg_paths(f.tree)
             min_x   == viewbox.val[1]
             min_y   == viewbox.val[2]
             width   == viewbox.val[3]
             height  == viewbox.val[4]
         IN  IF ~viewbox.ok
             THEN [symbol |-> Nothing, log |-> <<"Error parsing">>]
             ELSE IF paths = <<>>
             THEN [symbol |-> Nothing, log |-> <<"Warning: No paths found">>]
             ELSE [symbol |-> Some([id       |-> SymbolId(f.stem),
                                    category |-> "Imported",
                                    width    |-> width,
                                    height   |-> height,
                                    pins     |-> infer_pins_from_svg(<<0, 0, width, height>>, paths),
                                    svg_path |-> normalize_svg_path(paths, min_x, min_y, Den)]),
                   log |-> <<>>]

(***************************************************************************)
(* Input documents                                                         *)
(***************************************************************************)
NoAttrs == [a \in {} |-> <<>>]

Elem(tag, attrs, parent) == [tag |-> tag, attrs |-> attrs, parent |-> parent]

TagSvg == <<"s", "v", "g">>

TagG == <<"g">>

\* a namespaced tag as ElementTree spells it: {uri}path
TagNsPath == <<"{", "n", "}", "p", "a", "t", "h">>

\* a foreign element whose name ends with "symbol"
TagMapSymbol == <<"m", "a", "p", "s", "y", "m", "b", "o", "l">>

PathA == <<"M", " ", "1", "0", " ", "2", "0", " ", "L", " ", "3", "0", " ", "4", "0">>

PathB == <<"M", " ", "1", " ", "2">>

SvgFile(stem, xml, tree) == [stem |-> stem, xml |-> xml, tree |-> tree]

\* viewBox at the origin, one path
DocGood ==
    SvgFile(<<"a", "_", "b">>, "ok",
            <<Elem(TagSvg, [viewBox |-> <<"0", " ", "0", " ", "4", "0", " ", "2", "0">>], 0),
              Elem(TagPath, [d |-> PathA], 1)>>)

\* viewBox off the origin, a duplicated path inside a group
DocShift ==
    SvgFile(<<"C", "d">>, "ok",
            <<Elem(TagSvg, [viewBox |-> <<"1", "0", " ", "2", "0", " ", "2", "0", " ", "4", "0">>], 0),
              Elem(TagG, NoAttrs, 1),
              Elem(TagPath, [d |-> PathA], 2),
              Elem(TagPath, [d |-> PathA], 2),
              Elem(TagPath, [d |-> PathB], 1)>>)

\* not XML
DocMalformed == SvgFile(<<"b", "a", "d">>, "malformed", <<>>)

\* a file that cannot be read
DocUnreadable == SvgFile(<<"l", "o", "c", "k", "e", "d">>, "unreadable", <<>>)

\* a root and no path anywhere
DocNoPaths ==
    SvgFile(<<"e", "m", "p", "t", "y">>, "ok",
            <<Elem(TagSvg, [viewBox |-> <<"0", " ", "0", " ", "4", "0", " ", "2", "0">>], 0), Elem(TagG, NoAttrs, 1)>>)

\* a path, and a viewBox of four parts that are not all numbers
DocBadBox ==
    SvgFile(<<"b", "o", "x">>, "ok",
            <<Elem(TagSvg, [viewBox |-> <<"0", " ", "0", " ", "4", "0", " ", "a", "u", "t", "o">>], 0),
              Elem(TagPath, [d |-> PathB], 1)>>)

\* a path, no viewBox four parts long, and a width with a unit other than px
DocBadWidth ==
    SvgFile(<<"m", "m">>, "ok",
            <<Elem(TagSvg, [viewBox |-> <<"0", ",", "0", ",", "4", "0", ",", "2", "0">>, width |-> <<"4", "0", "m", "m">>], 0),
              Elem(TagPath, [d |-> PathB], 1)>>)

\* no viewBox, width and height given
DocSized ==
    SvgFile(<<"E", "_", "f">>, "ok",
            <<Elem(TagSvg, [width |-> <<"5", "0", "p", "x">>, height |-> <<"3", "0">>], 0),
              Elem(TagNsPath, [d |-> PathB], 1)>>)

\* a <symbol> holding the geometry, and a loose path beside it
DocSymbol ==
    SvgFile(<<"s", "y", "m">>, "ok",
            <<Elem(TagSvg, [viewBox |-> <<"0", " ", "0", " ", "2", "0", " ", "4", "0">>], 0),
              Elem(TagSymbol, NoAttrs, 1),
              Elem(TagPath, [d |-> PathA], 2),
              Elem(TagPath, [d |-> PathB], 1)>>)

\* a second file whose name differs from DocGood's by case and a hyphen only
DocTwin ==
    SvgFile(<<"A", "-", "b">>, "ok",
            <<Elem(TagSvg, [viewBox |-> <<"0", " ", "0", " ", "2", "0", " ", "2", "0">>], 0),
              Elem(TagPath, [d |-> PathB], 1)>>)

\* a viewBox whose width is a negative number
DocNegative ==
    SvgFile(<<"n", "e", "g">>, "ok",
            <<Elem(TagSvg, [viewBox |-> <<"0", " ", "0", " ", "-", "4", "0", " ", "2", "0">>], 0),
              Elem(TagPath, [d |-> PathB], 1)>>)

Docs == {DocGood, DocShift, DocMalformed, DocUnreadable, DocNoPaths, DocBadBox, DocBadWidth,
         DocSized, DocSymbol, DocTwin, DocNegative}

\* the most files a directory holds
MaxFiles == 3

\* a directory's listing: files of distinct names, in any order
Listings ==
    UNION {{l \in [1..n -> Docs] : \A i, j \in 1..n : l[i] = l[j] => i = j} : n \in 0..MaxFiles}

\* args.category
ArgsCategory == "Control"

(***************************************************************************)
(* main                                                                    *)
(***************************************************************************)
NoCall == [fn |-> "none"]

Init ==
    /\ pc = "start"
    /\ input \in {"file", "dir", "missing"}
    /\ dest \in {"json", "ts", "stdout"}
    /\ files \in Listings
    /\ input = "file" => Len(files) = 1
    /\ input = "missing" => files = <<>>
    /\ idx = 1
    /\ symbols = <<>>
    /\ stdout = <<>>
    /\ stderr = <<>>
    /\ outFile = <<>>
    /\ exitCode = Nothing
    /\ call = NoCall
    /\ ret = Nothing

\* sys.exit(code) after printing msg to stderr
Exit(code, msg) ==
    /\ stderr' = stderr \o msg
    /\ exitCode' = Some(code)
    /\ pc' = "done"

\* lines 382-389: args.input is a file
MainFile ==
    /\ pc = "start" /\ input = "file"
    /\ LET r == parse_svg_file(files[1])
       IN  IF r.symbol.some
           THEN /\ symbols' = <<[r.symbol.val EXCEPT !.category = ArgsCategory]>>
                /\ stderr' = stderr \o r.log
                /\ pc' = "check"
                /\ UNCHANGED exitCode
           ELSE /\ Exit(1, r.log \o <<"Failed to parse SVG file">>)
                /\ UNCHANGED symbols
    /\ UNCHANGED <<input, dest, files, idx, stdout, outFile, call, ret>>

\* lines 392-394: args.input is neither a file nor a directory
MainMissing ==
    /\ pc = "start" /\ input = "missing"
    /\ Exit(1, <<"Input not found">>)
    /\ UNCHANGED <<input, dest, files, idx, symbols, stdout, outFile, call, ret>>

\* lines 390-391 and 263-266: convert_directory lists the files and prints
\* how many it found
ConvertDirectoryFound ==
    /\ pc = "start" /\ input = "dir"
    /\ stdout' = Append(stdout, [what |-> "Found", n |-> Len(files)])
    /\ idx' = 1
    /\ pc' = "loop"
    /\ UNCHANGED <<input, dest, files, symbols, stderr, outFile, exitCode, call, ret>>

\* line 269: the loop's print
ConvertDirectoryPrint ==
    /\ pc = "loop" /\ idx <= Len(files)
    /\ stdout' = Append(stdout, [what |-> "Converting", name |-> files[idx].stem])
    /\ pc' = "parse"
    /\ UNCHANGED <<input, dest, files, idx, symbols, stderr, outFile, exitCode, call, ret>>

\* mutant: the loop stops at the first file that yields no symbol
ConvertDirectoryParseAbort ==
    /\ pc = "parse"
    /\ LET r == parse_svg_file(files[idx])
       IN  /\ stderr' = stderr \o r.log
           /\ symbols' = IF r.symbol.some
                         THEN Append(symbols, [r.symbol.val EXCEPT !.category = ArgsCategory])
                         ELSE symbols
           /\ idx' = IF r.symbol.some THEN idx + 1 ELSE Len(files) + 1
    /\ pc' = "loop"
    /\ UNCHANGED <<input, dest, files, stdout, outFile, exitCode, call, ret>>

\* lines 270-273: one file converted and, if there is a symbol, collected
ConvertDirectoryParse ==
    /\ pc = "parse"
    /\ LET r == parse_svg_file(files[idx])
       IN  /\ stderr' = stderr \o r.log
           /\ symbols' = IF r.symbol.some
                         THEN Append(symbols, [r.symbol.val EXCEPT !.category = ArgsCategory])
                         ELSE symbols
    /\ idx' = idx + 1
    /\ pc' = "loop"
    /\ UNCHANGED <<input, dest, files, stdout, outFile, exitCode, call, ret>>

\* line 275: the loop is over, the list is returned to main
ConvertDirectoryReturn ==
    /\ pc = "loop" /\ idx > Len(files)
    /\ pc' = "check"
    /\ UNCHANGED <<input, dest, files, idx, symbols, stdout, stderr, outFile, exitCode, call, ret>>

\* mutant: the empty batch is exported like any other
MainCheckNoGuard ==
    /\ pc = "check"
    /\ pc' = "export"
    /\ UNCHANGED <<stderr, exitCode>>
    /\ UNCHANGED <<input, dest, files, idx, symbols, stdout, outFile, call, ret>>

\* lines 396-398
MainCheck ==
    /\ pc = "check"
    /\ IF symbols = <<>>
       THEN Exit(1, <<"No symbols converted">>)
       ELSE /\ pc' = "export"
            /\ UNCHANGED <<stderr, exitCode>>
    /\ UNCHANGED <<input, dest, files, idx, symbols, stdout, outFile, call, ret>>

\* lines 401-413 with export_json (278-291) and export_typescript (294-341):
\* the whole batch is rendered and written in one write
MainExport ==
    /\ pc = "export"
    /\ IF dest = "stdout"
       THEN /\ stdout' = Append(stdout, [what |-> "json", symbols |-> symbols])
            /\ UNCHANGED outFile
       ELSE /\ outFile' = Append(outFile, [what |-> dest, symbols |-> symbols])
            /\ stdout' = Append(stdout, [what |-> "Exported", n |-> Len(symbols)])
    /\ exitCode' = Some(0)
    /\ pc' = "done"
    /\ UNCHANGED <<input, dest, files, idx, symbols, stderr, call, ret>>

Next ==
    \/ MainFile
    \/ MainMissing
    \/ ConvertDirectoryFound
    \/ ConvertDirectoryPrint
    \/ ConvertDirectoryParse
    \/ ConvertDirectoryReturn
    \/ MainCheck
    \/ MainExport

Spec == Init /\ [][Next]_vars

(***************************************************************************)
(* Claims about the batch run (Spec)                                       *)
(***************************************************************************)

\* the tag without its {namespace} prefix
LocalName(tag) ==
    IF tag # <<>> /\ Head(tag) = "{" /\ \E i \in 1..Len(tag) : tag[i] = "}"
    THEN SubSeq(tag, (CHOOSE i \in 1..Len(tag) : tag[i] = "}" /\ \A j \in 1..(i - 1) : tag[j] # "}") + 1,
                Len(tag))
    ELSE tag

Ids(records) == [k \in 1..Len(records) |-> records[k].id]

StemIds(fs) == [k \in 1..Len(fs) |-> SymbolId(fs[k].stem)]

\* convert_directory has returned its list to main
Returned == input = "dir" /\ pc \in {"check", "export", "done"}

\* the document parses as XML and holds a path element with a non-empty d
WellFormedWithPath(f) ==
    /\ f.xml = "ok"
    /\ \E i \in 1..Len(f.tree) :
          /\ LocalName(f.tree[i].tag) = TagPath
          /\ Get(f.tree[i], "d", None) \notin {None, <<>>}

\* the document parses as XML, its bounding box reads as numbers and the
\* path extractor finds a path in it
Convertible(f) ==
    /\ f.xml = "ok"
    /\ parse_svg_viewbox(f.tree[1]).ok
    /\ extract_svg_paths(f.tree) # <<>>

\* C1 as stated: once convert_directory has returned, its records are those of
\* the documents that are well-formed XML with at least one non-empty path,
\* one each, in discovery order.
C1_AsStated ==
    Returned => Ids(symbols) = StemIds(SelectSeq(files, WellFormedWithPath))

\* C1 amended: at every point of the batch the records collected are those of
\* the documents processed so far that parse as XML, whose bounding box reads
\* as numbers and in which the path extractor finds a path, one each, in
\* discovery order; and the list is returned only when every document has been
\* processed, whatever failed before.
C1_Records ==
    input = "dir" =>
        /\ Ids(symbols) = StemIds(SelectSeq(SubSeq(files, 1, idx - 1), Convertible))
        /\ Returned => idx = Len(files) + 1

\* C1 witness: three files, the second malformed, the other two converted
C1_Witness ==
    /\ Returned
    /\ Len(files) = 3
    /\ files[2].xml = "malformed"
    /\ Len(symbols) = 2
    /\ Ids(symbols) = <<SymbolId(files[1].stem), SymbolId(files[3].stem)>>

\* the batch documents written so far, to the file or to standard output
IsDocument(e) == e.what \in {"json", "ts"}

Written == outFile \o SelectSeq(stdout, IsDocument)

\* C2: a directory run that ends with no record exits non-zero and has written
\* no batch document; one that ends with at least one record exits zero and
\* has written the batch, all of its records, once.
C2_Outcome ==
    (pc = "done" /\ input = "dir") =>
        IF symbols = <<>>
        THEN exitCode = Some(1) /\ Written = <<>>
        ELSE /\ exitCode = Some(0)
             /\ Len(Written) = 1
             /\ Written[1].symbols = symbols

\* C2 witness: a directory of two files, neither converted, ends in failure
C2_Witness ==
    /\ pc = "done" /\ input = "dir"
    /\ Len(files) = 2
    /\ symbols = <<>>
    /\ exitCode = Some(1)

\* how many of the input documents have been processed
Processed ==
    IF input = "dir" THEN idx - 1
    ELSE IF pc = "start" THEN 0 ELSE Len(files)

\* everything written to the output destination so far
DestWrites == IF dest = "stdout" THEN stdout ELSE outFile

\* C3: the output destination (the file, or standard output) is written at
\* most once, and not before every input document has been processed.
C3_WrittenOnce ==
    /\ Len(DestWrites) <= 1
    /\ DestWrites # <<>> => Processed = Len(files)

\* C11: once convert_directory has returned, no two of its records have the
\* same id, and each id is the slug of one of the files' stems (underscores
\* to hyphens, lowercased).
C11_UniqueIds ==
    Returned =>
        /\ \A i, j \in 1..Len(symbols) : symbols[i].id = symbols[j].id => i = j
        /\ \A i \in 1..Len(symbols) : \E k \in 1..Len(files) : symbols[i].id = SymbolId(files[k].stem)

\* C12: every SymbolDefinition produced has width >= 0 and height >= 0.
C12_NonNegativeSize ==
    \A i \in 1..Len(symbols) : symbols[i].width >= 0 /\ symbols[i].height >= 0


(***************************************************************************)
(* Direct calls of the pure functions: call holds the arguments, ret the   *)
(* result once the function has returned.  main() is not running.          *)
(***************************************************************************)
NoMain ==
    /\ pc = "idle"
    /\ input = "none"
    /\ dest = "none"
    /\ files = <<>>
    /\ idx = 1
    /\ symbols = <<>>
    /\ stdout = <<>>
    /\ stderr = <<>>
    /\ outFile = <<>>
    /\ exitCode = Nothing

Return(fn, result) ==
    /\ call.fn = fn
    /\ ~ret.some
    /\ ret' = Some(result)
    /\ UNCHANGED <<call, mainVars>>

(***************************************************************************)
(* extract_svg_paths over every small document tree (SpecExtract)          *)
(***************************************************************************)

\* the most elements a document tree holds, the root included
MaxNodes == 4

\* what an element below the root can be: a group, a <symbol>, a foreign
\* element whose name ends with "symbol", a path without d, with an empty d,
\* with one of two d values, or a namespaced path
NodeKinds ==
    {[tag |-> TagG, attrs |-> NoAttrs],
     [tag |-> TagSymbol, attrs |-> NoAttrs],
     [tag |-> TagMapSymbol, attrs |-> NoAttrs],
     [tag |-> TagPath, attrs |-> NoAttrs],
     [tag |-> TagPath, attrs |-> [d |-> <<>>]],
     [tag |-> TagPath, attrs |-> [d |-> PathA]],
     [tag |-> TagPath, attrs |-> [d |-> PathB]],
     [tag |-> TagNsPath, attrs |-> [d |-> PathA]]}

RECURSIVE OnSpine(_, _, _)
OnSpine(p, j, a) == IF j = a THEN TRUE ELSE IF j <= 1 THEN FALSE ELSE OnSpine(p, p[j], a)

\* parent indices that make 1..n a tree listed in document order: the parent
\* of an element is the element before it or one of that element's ancestors
DocumentOrders(n) ==
    {p \in [2..n -> 1..n] : \A i \in 2..n : p[i] < i /\ OnSpine(p, i - 1, p[i])}

\* the tree of n elements with kinds k and parents p below a plain <svg> root
Tree(n, k, p) ==
    [i \in 1..n |-> IF i = 1 THEN Elem(TagSvg, NoAttrs, 0)
                              ELSE Elem(k[i].tag, k[i].attrs, p[i])]

\* every document tree of up to MaxNodes elements
InitExtract ==
    /\ NoMain
    /\ \E n \in 1..MaxNodes :
          \E p \in DocumentOrders(n) :
             \E k \in [2..n -> NodeKinds] :
                call = [fn |-> "extract_svg_paths", tree |-> Tree(n, k, p)]
    /\ ret = Nothing

CallExtract == Return("extract_svg_paths", extract_svg_paths(call.tree))

NextExtract == CallExtract

SpecExtract == InitExtract /\ [][NextExtract]_vars

D(tree, i) == Get(tree[i], "d", None)

\* the elements the extractor reads a d from: elements it takes for paths,
\* with a non-empty d, inside an element it takes for a symbol if there is one
SymbolLike(tree) == {i \in 1..Len(tree) : EndsWith(tree[i].tag, TagSymbol)}

Relevant(tree) ==
    {i \in 1..Len(tree) :
        /\ EndsWith(tree[i].tag, TagPath)
        /\ D(tree, i) \notin {None, <<>>}
        /\ SymbolLike(tree) # {} => \E sym \in SymbolLike(tree) : IsAncestorOrSelf(tree, sym, i)}

FirstOccurrence(tree, d) ==
    CHOOSE i \in Relevant(tree) :
        D(tree, i) = d /\ \A j \in Relevant(tree) : D(tree, j) = d => i <= j

Range(seq) == {seq[i] : i \in 1..Len(seq)}

\* C4: the extracted sequence holds no string twice, holds exactly the
\* distinct non-empty d values of the relevant path elements, and lists them
\* by first occurrence in document order.
C4_Dedup ==
    ret.some /\ call.fn = "extract_svg_paths" =>
        LET tree == call.tree
            out  == ret.val
        IN  /\ \A i, j \in 1..Len(out) : out[i] = out[j] => i = j
            /\ Range(out) = {D(tree, i) : i \in Relevant(tree)}
            /\ \A i, j \in 1..Len(out) :
                  i < j => FirstOccurrence(tree, out[i]) < FirstOccurrence(tree, out[j])

\* C4 witness: two path elements with the same d, and a third with another,
\* yield two entries
C4_Witness ==
    /\ ret.some /\ call.fn = "extract_svg_paths"
    /\ \E i, j \in Relevant(call.tree) : i # j /\ D(call.tree, i) = D(call.tree, j)
    /\ ret.val = <<PathB, PathA>>

\* path elements by local name, and those inside an element named symbol
PathElems(tree) == {i \in 1..Len(tree) : LocalName(tree[i].tag) = TagPath}

SymbolElems(tree) == {i \in 1..Len(tree) : LocalName(tree[i].tag) = TagSymbol}

InsideSymbol(tree) ==
    {i \in PathElems(tree) : \E sym \in SymbolElems(tree) : IsAncestorOrSelf(tree, sym, i)}

NonEmptyD(tree, elems) == {D(tree, i) : i \in elems} \ {None, <<>>}

\* C5: with an element whose local name is "symbol" in the document the
\* extractor returns the d values of the paths inside symbol elements and of
\* no other; without one it returns the d values of every path element.
C5_SymbolPrecedence ==
    ret.some /\ call.fn = "extract_svg_paths" =>
        Range(ret.val) =
            IF SymbolElems(call.tree) # {}
            THEN NonEmptyD(call.tree, InsideSymbol(call.tree))
            ELSE NonEmptyD(call.tree, PathElems(call.tree))

(***************************************************************************)
(* normalize_svg_path over small path lists (SpecNormalize)                *)
(***************************************************************************)

\* the number n as a float
Num(n) == n * Den

\* the most arguments a generated segment holds
MaxArgs == 3

\* coordinate tokens: whole numbers, a decimal, and one that is no number
Tokens == {<<"1", "0">>, <<"2", "0">>, <<"2", ".", "5">>, <<"x">>}

SegCommands == {"M", "L", "l"}

\* a command letter and its arguments, written with single spaces
Segment(cmd, args) == <<cmd>> \o Space \o Join(args, Space)

Segments ==
    {Segment(cmd, args) : cmd \in SegCommands,
                          args \in UNION {[1..n -> Tokens] : n \in 0..MaxArgs}}

\* hand-written paths: two segments, commas, a tab, a closing Z, a signed
\* number, text before the first command
ExamplePaths == {PathA, PathB, <<"M", "1", "0", ",", "2", "0", " ", "l", " ", "2", ".", "5", " ", "x", " ", "Z">>, <<"M", "\t", "1", "0", " ", ",", "2", "0", ",">>, <<"5", " ", "M", " ", "-", "1", "0", " ", "+", "2", "0", "z">>}

PathLists ==
    {<<>>} \cup {<<p>> : p \in Segments \cup ExamplePaths}
           \cup {<<p, q>> : p \in ExamplePaths, q \in ExamplePaths}

InitNormalize ==
    /\ NoMain
    /\ call \in {[fn |-> "normalize_svg_path", paths |-> ps, min_x |-> mx, min_y |-> my,
                  scale |-> sc] :
                    ps \in PathLists, mx \in {0, Num(10)}, my \in {0, Num(20)},
                    sc \in {Num(1), Num(2)}}
    /\ ret = Nothing

CallNormalize ==
    Return("normalize_svg_path",
           normalize_svg_path(call.paths, call.min_x, call.min_y, call.scale))

NextNormalize == CallNormalize

SpecNormalize == InitNormalize /\ [][NextNormalize]_vars

Normalized == ret.some /\ call.fn = "normalize_svg_path"

FastPath == call.min_x = 0 /\ call.min_y = 0 /\ call.scale = Num(1)

\* C6: with min_x = 0, min_y = 0 and scale = 1.0 the result is the input
\* paths joined by single spaces, character for character, and normalizing
\* that result again returns it unchanged.
C6_FastPath ==
    Normalized /\ FastPath =>
        /\ ret.val = Join(call.paths, Space)
        /\ normalize_svg_path(<<ret.val>>, 0, 0, Num(1)) = ret.val

\* C6 witness: two paths on the fast path that re-tokenizing would rewrite
C6_Witness ==
    /\ Normalized /\ FastPath
    /\ Len(call.paths) = 2
    /\ ReSub(ret.val, 0, 0, Num(1)) # ret.val

\* the numbers written in a path string: the runs of digits, points and signs
NumberRuns(s) ==
    SelectSeq(SplitRuns(s, Range(s) \ (Range(Digits) \cup {".", "-", "+"}), <<>>, FALSE),
              NonEmpty)

\* a number with at most two decimals, no trailing zero, no trailing point
Stripped(n) ==
    \/ \A i \in 1..Len(n) : n[i] # "."
    \/ /\ n[Len(n)] \notin {"0", "."}
       /\ \E i \in (Len(n) - 2)..(Len(n) - 1) : i >= 1 /\ n[i] = "."

\* C7: off the fast path, when every coordinate token is a number, every
\* number written (the x of a pair like the y) has at most two decimals and
\* neither trailing zeros nor a trailing point; M 10 20 L 30 40 with
\* min_x = 10, min_y = 20, scale = 1 yields M0,0 L20,20.
C7_StrippedCoordinates ==
    Normalized /\ ~FastPath =>
        /\ "x" \notin Range(Join(call.paths, Space)) =>
              \A k \in 1..Len(NumberRuns(ret.val)) : Stripped(NumberRuns(ret.val)[k])
        /\ (call.paths = <<PathA>> /\ call.min_x = Num(10) /\ call.min_y = Num(20)
              /\ call.scale = Num(1)) => ret.val = <<"M", "0", ",", "0", " ", "L", "2", "0", ",", "2", "0">>

\* the segments of a path string: each command letter with the run of
\* characters up to the next command letter
RECURSIVE SegmentsOf(_)
SegmentsOf(s) ==
    IF s = <<>> THEN <<>>
    ELSE IF Head(s) \notin CommandLetters THEN SegmentsOf(Tail(s))
    ELSE LET n == RunLen(Tail(s))
         IN  <<[cmd |-> Head(s), rest |-> SubSeq(s, 2, n + 1)]>>
             \o SegmentsOf(SubSeq(s, n + 2, Len(s)))

\* the coordinate tokens of a segment of the input
ArgsIn(seg) == IF Strip(seg.rest) = <<>> THEN <<>> ELSE ReSplit(Strip(seg.rest))

\* the tokens written for a segment of the output, pairs split at the comma
ArgsOut(seg) == IF seg.rest = <<>> THEN <<>> ELSE ReSplit(seg.rest)

IsNumber(tok) == PyFloat(tok).ok

\* (x - min_x) * scale and (y - min_y) * scale for the number v
ShiftedX(v) == Mul(v - call.min_x, call.scale)

ShiftedY(v) == Mul(v - call.min_y, call.scale)

\* C13: off the fast path the output has the command letters of the input in
\* the same order; in a lowercase segment every numeric argument keeps its
\* value; in an uppercase segment every numeric argument comes out shifted
\* and scaled as an x or as a y, and when all arguments of the segment are
\* numbers the odd positions are the x and the even positions the y.
C13_ShiftByPosition ==
    Normalized /\ ~FastPath =>
        LET src == SegmentsOf(Join(call.paths, Space))
            dst == SegmentsOf(ret.val)
        IN  /\ Len(dst) = Len(src)
            /\ \A k \in 1..Len(src) :
                  LET a == ArgsIn(src[k])
                      b == ArgsOut(dst[k])
                  IN  /\ dst[k].cmd = src[k].cmd
                      /\ Len(b) = Len(a)
                      /\ \A i \in 1..Len(a) :
                            IsNumber(a[i]) =>
                              /\ IsNumber(b[i])
                              /\ IF ~IsUpper(src[k].cmd)
                                 THEN PyFloat(b[i]).val = PyFloat(a[i]).val
                                 ELSE IF \A j \in 1..Len(a) : IsNumber(a[j])
                                 THEN PyFloat(b[i]).val = IF i % 2 = 1
                                                          THEN ShiftedX(PyFloat(a[i]).val)
                                                          ELSE ShiftedY(PyFloat(a[i]).val)
                                 ELSE PyFloat(b[i]).val \in {ShiftedX(PyFloat(a[i]).val),
                                                             ShiftedY(PyFloat(a[i]).val)}

\* C14: off the fast path a token that is no number never makes the call
\* fail: the call returns a string in which every such token stands
\* unchanged at its position in its segment, no token is lost, and a number
\* right after such a token starts a fresh pair: it is normalized as an x
\* (unless the token after it is no number in turn).
C14_BadTokenVerbatim ==
    Normalized /\ ~FastPath =>
        LET src == SegmentsOf(Join(call.paths, Space))
            dst == SegmentsOf(ret.val)
        IN  /\ ret.val \in Seq(Range(ret.val))
            /\ Len(dst) = Len(src)
            /\ \A k \in 1..Len(src) :
                  LET a == ArgsIn(src[k])
                      b == ArgsOut(dst[k])
                  IN  /\ Len(b) = Len(a)
                      /\ \A i \in 1..Len(a) : ~IsNumber(a[i]) => b[i] = a[i]
                      /\ \A i \in 2..Len(a) :
                            /\ ~IsNumber(a[i - 1]) /\ IsNumber(a[i])
                            /\ (i < Len(a) => IsNumber(a[i + 1]))
                            => /\ IsNumber(b[i])
                               /\ PyFloat(b[i]).val = IF IsUpper(src[k].cmd)
                                                      THEN ShiftedX(PyFloat(a[i]).val)
                                                      ELSE PyFloat(a[i]).val

\* C14 witness: M x 10 20 shifted by (10, 20) comes out as Mx 0.00,0
C14_Witness ==
    /\ Normalized /\ ~FastPath
    /\ call.paths = <<Segment("M", <<<<"x">>, <<"1", "0">>, <<"2", "0">>>>)>>
    /\ call.min_x = Num(10) /\ call.min_y = Num(20) /\ call.scale = Num(1)
    /\ ret.val = <<"M", "x", " ", "0", ".", "0", "0", ",", "0">>

(***************************************************************************)
(* infer_pins_from_svg over small boxes (SpecPins)                         *)
(***************************************************************************)

\* the largest width and height, in halves
MaxDim == 8

\* widths and heights from -1 to MaxDim / 2 in steps of 0.5
Dims == {(k * Den) \div 2 : k \in (0 - 2)..MaxDim}

InitPins ==
    /\ NoMain
    /\ call \in {[fn |-> "infer_pins_from_svg", viewbox |-> <<0, 0, w, h>>, paths |-> ps] :
                    w \in Dims, h \in Dims, ps \in {<<>>, <<PathA>>}}
    /\ ret = Nothing

CallPins == Return("infer_pins_from_svg", infer_pins_from_svg(call.viewbox, call.paths))

NextPins == CallPins

SpecPins == InitPins /\ [][NextPins]_vars

Inferred == ret.some /\ call.fn = "infer_pins_from_svg"

Width == call.viewbox[3]

Height == call.viewbox[4]

\* C8: for a box with width >= 0 and height >= 0, not both zero, there are
\* exactly two pins, with ids "1" and "2", inside [0, width] x [0, height],
\* the same whatever the paths argument.
C8_TwoPinsInBox ==
    (Inferred /\ Width >= 0 /\ Height >= 0 /\ ~(Width = 0 /\ Height = 0)) =>
        /\ Len(ret.val) = 2
        /\ ret.val[1].id = "1" /\ ret.val[2].id = "2"
        /\ \A k \in 1..2 : /\ 0 <= ret.val[k].x /\ ret.val[k].x <= Width
                           /\ 0 <= ret.val[k].y /\ ret.val[k].y <= Height
        /\ \A ps \in {<<>>, <<PathA>>, <<PathB, PathA>>} :
              infer_pins_from_svg(call.viewbox, ps) = ret.val

\* C8 witness: a wide box with its pins on the left and right edges
C8_Witness ==
    /\ Inferred
    /\ Width = Num(4) /\ Height = Num(1)
    /\ call.paths # <<>>
    /\ ret.val[2].x = Width

\* width > 1.5 * height and not height > 1.5 * width, in whole numbers
Horizontal == 2 * Width > 3 * Height /\ ~(2 * Height > 3 * Width)

\* C9: the pins are left and right, at (0, height/2) and (width, height/2),
\* exactly when width > 1.5 * height and not height > 1.5 * width; in every
\* other case they are top and bottom, at (width/2, 0) and (width/2, height).
C9_AspectRule ==
    Inferred =>
        IF Horizontal
        THEN ret.val = <<Pin("1", 0, Height \div 2, "left"),
                         Pin("2", Width, Height \div 2, "right")>>
        ELSE ret.val = <<Pin("1", Width \div 2, 0, "top"),
                         Pin("2", Width \div 2, Height, "bottom")>>

\* C9 witness: a square box, pins top and bottom
C9_Witness ==
    /\ Inferred
    /\ Width = Height /\ Width > 0
    /\ ret.val[1].direction = "top" /\ ret.val[2].direction = "bottom"

(***************************************************************************)
(* parse_svg_viewbox over small root elements (SpecViewbox)                *)
(***************************************************************************)
ViewBoxValues == {<<"0", " ", "0", " ", "4", "0", " ", "2", "0">>, <<"1", "0", " ", "2", "0", " ", "4", "0", " ", "2", "0">>, <<" ", "0", " ", " ", "0", "\t", "4", "0", " ", "2", "0", " ">>, <<"0", ",", "0", ",", "4", "0", ",", "2", "0">>,
                  <<"0", " ", "0", " ", "4", "0", " ", "a", "u", "t", "o">>, <<"4", "0", " ", "2", "0">>, <<>>}

WidthValues == {<<"5", "0">>, <<"5", "0", "p", "x">>, <<"5", "e", "m">>}

HeightValues == {<<"3", "0">>, <<"3", "0", "p", "x">>, <<" ", "3", "0", " ">>, <<"a", "u", "t", "o">>}

\* the attributes of a root: any of viewBox, width and height, or none
RootAttrs ==
    {[a \in names |-> CASE a = "viewBox" -> vb [] a = "width" -> w [] a = "height" -> h] :
        names \in SUBSET {"viewBox", "width", "height"},
        vb \in ViewBoxValues, w \in WidthValues, h \in HeightValues}

InitViewbox ==
    /\ NoMain
    /\ call \in {[fn |-> "parse_svg_viewbox", svg_root |-> Elem(TagSvg, a, 0)] : a \in RootAttrs}
    /\ ret = Nothing

CallViewbox == Return("parse_svg_viewbox", parse_svg_viewbox(call.svg_root))

NextViewbox == CallViewbox

SpecViewbox == InitViewbox /\ [][NextViewbox]_vars

\* the attribute is four space-separated numbers
FourNumbers(v) ==
    /\ v # None
    /\ Len(SplitWs(v)) = 4
    /\ \A i \in 1..4 : PyFloat(SplitWs(v)[i]).ok

\* the attribute as a number, a px suffix aside
Size(v) == PyFloat(RemoveAll(v, Px))

\* C10: a viewBox of four space-separated numbers is the bounding box; when
\* the viewBox is absent or is not four space-separated numbers the box is
\* (0, 0, width, height) from the root's width and height attributes, a px
\* suffix stripped.  (Roots whose width and height are given and numeric.)
C10_ViewBoxOrSize ==
    LET root == call.svg_root
        vb   == Get(root, "viewBox", None)
        w    == Get(root, "width", None)
        h    == Get(root, "height", None)
    IN  (ret.some /\ call.fn = "parse_svg_viewbox"
            /\ w # None /\ h # None /\ Size(w).ok /\ Size(h).ok) =>
            IF FourNumbers(vb)
            THEN ret.val = Ok(<<PyFloat(SplitWs(vb)[1]).val, PyFloat(SplitWs(vb)[2]).val,
                                PyFloat(SplitWs(vb)[3]).val, PyFloat(SplitWs(vb)[4]).val>>)
            ELSE ret.val = Ok(<<0, 0, Size(w).val, Size(h).val>>)

====
